---------------------------- MODULE Spec2Model ----------------------------
(***************************************************************************)
(* Model of the YouTube transcript microservice (src/app.py).              *)
(*                                                                         *)
(* Python values are represented as follows.                               *)
(*   str            a TLA+ string                                          *)
(*   None / value   an Optional position holds the empty tuple for None    *)
(*                  and the one-element tuple of the value otherwise       *)
(*   dict           a record whose DOMAIN is the set of keys present, so a *)
(*                  missing key is a field the record does not have        *)
(*   list           a sequence                                             *)
(*   float seconds  an integer number of ticks of 1/TicksPerSecond second. *)
(*                  TicksPerSecond is a power of two, so every modelled    *)
(*                  value is a double on which +, // and % of the code are *)
(*                  exact.                                                 *)
(***************************************************************************)
EXTENDS Integers, Sequences, FiniteSets, TLC

\* ------------------------------------------------------------------ bounds

\* Request slots of the server (requests that can be in the server at once).
NumSlots == 2

\* Longest segment list the transcript source returns.
MaxSegs == 3

\* Resolution of the modelled seconds values: ticks per second.
TicksPerSecond == 2048

Slots == 1..NumSlots

\* ---------------------------------------------------------- python values

None == <<>>

Some(v) == <<v>>

\* dict lookup d[k] raises KeyError when the key is missing
HasKey(d, k) == k \in DOMAIN d

\* ---------------------------------------------------------------- inputs

VideoIds == {"dQw4w9WgXcQ", "Ab_c-1"}

LangCodes == {"", "en-US"}

\* GET /transcript/{video_id} and GET /transcript/{video_id}/timestamps:
\* the path parameter and the query parameters that were supplied.
GetArgs ==
    {[video_id |-> v] : v \in VideoIds}
    \cup {[video_id |-> v, lang |-> l] : v \in VideoIds, l \in LangCodes}

\* The JSON object {}
EmptyObject == [k \in {} |-> None]

\* POST /transcript: the JSON object of the body. "language" may be absent,
\* null or a string; "video_id" may be absent; extra fields are ignored.
PostBodies ==
    {[video_id |-> v] : v \in VideoIds}
    \cup {[video_id |-> v, language |-> l] :
            v \in VideoIds, l \in {None} \cup {Some(c) : c \in LangCodes}}
    \cup {[language |-> Some("en")]}
    \cup {[extra |-> Some("x")]}
    \cup {EmptyObject}

GetRequests ==
    {[op |-> o, parsable |-> TRUE, args |-> a] :
        o \in {"simple", "timestamps"}, a \in GetArgs}

\* An unparsable body carries no JSON object at all.
PostRequests ==
    {[op |-> "detailed", parsable |-> TRUE, args |-> b] : b \in PostBodies}
    \cup {[op |-> "detailed", parsable |-> FALSE, args |-> [junk |-> "{invalid json}"]]}

\* GET /health takes no input.
HealthRequests == {[op |-> "health", parsable |-> TRUE, args |-> EmptyObject]}

AllRequests == GetRequests \cup PostRequests \cup HealthRequests

NoRequest == [op |-> "none", parsable |-> FALSE, args |-> [none |-> "none"]]

\* Seconds values of the segments the source returns, in ticks.
Sec(n) == n * TicksPerSecond

\* Segments as the source returns them: text, start and duration. One has an
\* empty text, one a zero duration, one starts after more than an hour.
WellFormedSegments ==
    { [text |-> Some("Hello"), start |-> 0, duration |-> Sec(3) \div 2],
      [text |-> Some(""), start |-> Sec(3) \div 2, duration |-> Sec(1)],
      [text |-> Some("world"), start |-> Sec(5) \div 2, duration |-> Sec(2)],
      [text |-> Some("instant"), start |-> Sec(5), duration |-> 0],
      [text |-> Some("late"), start |-> Sec(3665) + Sec(1) \div 8,
       duration |-> Sec(5) \div 2] }

\* Unexpected payload shapes: a null text and a missing key of each kind.
MalformedSegments ==
    { [text |-> None, start |-> 0, duration |-> Sec(1)],
      [start |-> 0, duration |-> Sec(1)],
      [text |-> Some("test"), start |-> 0],
      [text |-> Some("test"), duration |-> Sec(1)] }

Segments == WellFormedSegments \cup MalformedSegments

SeqsUpTo(S, n) == UNION {[1..k -> S] : k \in 0..n}

Payloads == SeqsUpTo(Segments, MaxSegs)

\* What FetchedTranscript.to_raw_data() does: return a list of dicts, return
\* something that is not a list of dicts, or raise.
RawOutcomes ==
    {[kind |-> "list", segments |-> p] : p \in Payloads}
    \cup {[kind |-> "junk", value |-> "not a list"]}
    \cup {[kind |-> "raise", exc |-> "Exception"]}

ClassifiedErrors ==
    {"TranscriptsDisabled", "NoTranscriptFound", "VideoUnavailable", "InvalidVideoId"}

\* The error of a rate-limited fetch: a plain Exception whose message holds 429.
RateLimitError == "Exception: 429 Too Many Requests"

\* Exceptions api.fetch can raise: the four classified ones and any other.
FetchErrors == ClassifiedErrors \cup {"Exception", RateLimitError}

\* What api.fetch does: raise, or return a FetchedTranscript.
FetchOutcomes ==
    {[kind |-> "raise", exc |-> e] : e \in FetchErrors}
    \cup {[kind |-> "return", raw |-> r] : r \in RawOutcomes}

NoFetched == [kind |-> "none"]

\* Values of the three environment variables at module load. The location
\* list is split and trimmed character by character, so it is modelled as
\* the sequence of its characters.
Environments ==
    { [WEBSHARE_PROXY_USERNAME |-> "", WEBSHARE_PROXY_PASSWORD |-> "",
       PROXY_LOCATIONS |-> <<>>],
      [WEBSHARE_PROXY_USERNAME |-> "testuser", WEBSHARE_PROXY_PASSWORD |-> "testpass",
       PROXY_LOCATIONS |-> <<"U", "S", ",", " ", "d", "e">>] }

\* The characters of a string, in order.
Chars(str) == [i \in 1..Len(str) |-> SubSeq(str, i, i)]

\* Location strings: empty, the documented ones, ones with an empty or
\* blank entry, and one with a form feed and a vertical tab around a code.
LocationStrings ==
    {"", " us , de , gb ", "US,DE", "us", "us,,de", " ", "\fUS,de"}

\* Every pairing of an empty or set username and password with a location
\* string.
ProxyEnvironments ==
    { [WEBSHARE_PROXY_USERNAME |-> u, WEBSHARE_PROXY_PASSWORD |-> p,
       PROXY_LOCATIONS |-> Chars(l)] :
        u \in {"", "testuser"}, p \in {"", "testpass"}, l \in LocationStrings }

\* Environments a running process is changed to.
ChangedEnvironments ==
    { [WEBSHARE_PROXY_USERNAME |-> "", WEBSHARE_PROXY_PASSWORD |-> "",
       PROXY_LOCATIONS |-> <<>>],
      [WEBSHARE_PROXY_USERNAME |-> "other", WEBSHARE_PROXY_PASSWORD |-> "secret",
       PROXY_LOCATIONS |-> Chars("gb")] }

\* A transcript request and the liveness probe.
ProbeRequests ==
    {[op |-> "simple", parsable |-> TRUE, args |-> [video_id |-> "dQw4w9WgXcQ"]]}
    \cup HealthRequests

\* Requests served side by side: two transcript requests that differ in
\* operation, video id and language, and the liveness probe.
SideBySideRequests ==
    { [op |-> "simple", parsable |-> TRUE, args |-> [video_id |-> "dQw4w9WgXcQ"]],
      [op |-> "timestamps", parsable |-> TRUE,
       args |-> [video_id |-> "Ab_c-1", lang |-> "en-US"]] }
    \cup HealthRequests

\* The source is down, rate-limits, or answers with one segment.
ProbeOutcomes ==
    { [kind |-> "raise", exc |-> "VideoUnavailable"],
      [kind |-> "raise", exc |-> RateLimitError],
      [kind |-> "return",
       raw |-> [kind |-> "list",
                segments |-> <<[text |-> Some("Hello"), start |-> 0,
                                duration |-> Sec(3) \div 2]>>]] }

\* The source is down, or answers with one of two transcripts.
SideBySideOutcomes ==
    { [kind |-> "raise", exc |-> "VideoUnavailable"],
      [kind |-> "return",
       raw |-> [kind |-> "list",
                segments |-> <<[text |-> Some("Hello"), start |-> 0,
                                duration |-> Sec(3) \div 2]>>]],
      [kind |-> "return",
       raw |-> [kind |-> "list",
                segments |-> <<[text |-> Some("world"), start |-> Sec(5) \div 2,
                                duration |-> Sec(2)]>>]] }

\* Start times for the clock format: whole hours up to three digits, the
\* ends of the minute and second ranges, and fractions of a second down to
\* one tick and up to one tick under a second. 252 ticks are 0.123046875 s,
\* 128 ticks are 0.0625 s (half-way between two milliseconds) and 615 ticks
\* are the first tick above 0.3 s.
ClockTimes ==
    { Sec(3600) * h + Sec(60) * m + Sec(1) * w + f :
        h \in {0, 1, 2, 99, 100, 277}, m \in {0, 1, 3, 59},
        w \in {0, 4, 5, 59}, f \in {0, 1, 128, 252, 615, 1024, 2047} }

\* Start times before zero: -5 s, one tick, -0.5 s, a whole hour and
\* -7384.5 s.
NegativeTimes ==
    { 0 - Sec(5), 0 - 1, 0 - Sec(1) \div 2, 0 - Sec(3600),
      0 - (Sec(7384) + Sec(1) \div 2) }

\* The timestamped request.
ClockRequests ==
    {[op |-> "timestamps", parsable |-> TRUE, args |-> [video_id |-> "dQw4w9WgXcQ"]]}

\* The source answers with one segment that starts at any of ClockTimes.
ClockOutcomes ==
    { [kind |-> "return",
       raw |-> [kind |-> "list",
                segments |-> <<[text |-> Some("t"), start |-> t, duration |-> d]>>]] :
        t \in ClockTimes \cup NegativeTimes, d \in {0, Sec(3) \div 2} }
    \cup {[kind |-> "raise", exc |-> "NoTranscriptFound"]}


\* ------------------------------------------------------- string helpers

\* A character is a string of length one with a code point below 256 (the
\* ones a string constant can hold). The letters str.lower() changes among
\* them, and what it changes them to:
UpperChars == <<"A", "B", "C", "D", "E", "F", "G", "H", "I", "J", "K", "L", "M",
                "N", "O", "P", "Q", "R", "S", "T", "U", "V", "W", "X", "Y", "Z",
                "À", "Á", "Â", "Ã", "Ä", "Å", "Æ", "Ç", "È", "É", "Ê", "Ë", "Ì",
                "Í", "Î", "Ï", "Ð", "Ñ", "Ò", "Ó", "Ô", "Õ", "Ö", "Ø", "Ù", "Ú",
                "Û", "Ü", "Ý", "Þ">>

LowerChars == <<"a", "b", "c", "d", "e", "f", "g", "h", "i", "j", "k", "l", "m",
                "n", "o", "p", "q", "r", "s", "t", "u", "v", "w", "x", "y", "z",
                "à", "á", "â", "ã", "ä", "å", "æ", "ç", "è", "é", "ê", "ë", "ì",
                "í", "î", "ï", "ð", "ñ", "ò", "ó", "ô", "õ", "ö", "ø", "ù", "ú",
                "û", "ü", "ý", "þ">>

\* The characters str.strip() removes: tab, line feed, vertical tab, form
\* feed, carriage return, the separators 0x1C to 0x1F, space, next line
\* (0x85) and no-break space (0xA0).
Whitespace ==
    {"\t", "\n", "", "\f", "\r", "", "", "", "", " ",
     "", " "}

\* str.lower() of one character
LowerChar(c) ==
    IF \E i \in DOMAIN UpperChars : UpperChars[i] = c
    THEN LowerChars[CHOOSE i \in DOMAIN UpperChars : UpperChars[i] = c]
    ELSE c

\* str.lower()
Lower(cs) == [i \in 1..Len(cs) |-> LowerChar(cs[i])]

RECURSIVE LStrip(_)
LStrip(cs) ==
    IF cs # <<>> /\ Head(cs) \in Whitespace THEN LStrip(Tail(cs)) ELSE cs

RECURSIVE RStrip(_)
RStrip(cs) ==
    IF cs # <<>> /\ cs[Len(cs)] \in Whitespace
    THEN RStrip(SubSeq(cs, 1, Len(cs) - 1))
    ELSE cs

\* str.strip()
Strip(cs) == RStrip(LStrip(cs))

\* str.split(","): the pieces between the commas, empty pieces included;
\* the empty string splits into one empty piece.
RECURSIVE SplitComma(_)
SplitComma(cs) ==
    IF \E i \in 1..Len(cs) : cs[i] = ","
    THEN LET i == CHOOSE j \in 1..Len(cs) :
                    cs[j] = "," /\ \A k \in 1..(j - 1) : cs[k] # ","
         IN  <<SubSeq(cs, 1, i - 1)>> \o SplitComma(SubSeq(cs, i + 1, Len(cs)))
    ELSE <<cs>>

\* A join that drops empty texts, as a filter on falsy texts would.
RECURSIVE SpaceJoin_SkipEmpty(_)
SpaceJoin_SkipEmpty(texts) ==
    IF Len(texts) = 0 THEN ""
    ELSE IF texts[1] = "" THEN SpaceJoin_SkipEmpty(Tail(texts))
    ELSE IF SpaceJoin_SkipEmpty(Tail(texts)) = "" THEN texts[1]
    ELSE texts[1] \o " " \o SpaceJoin_SkipEmpty(Tail(texts))

\* " ".join(texts)
RECURSIVE SpaceJoin(_)
SpaceJoin(texts) ==
    IF Len(texts) = 0 THEN ""
    ELSE IF Len(texts) = 1 THEN texts[1]
    ELSE texts[1] \o " " \o SpaceJoin(Tail(texts))

\* zero padding on the left up to a width
RECURSIVE ZeroPad(_, _)
ZeroPad(str, width) ==
    IF Len(str) >= width THEN str ELSE ZeroPad("0" \o str, width)

\* A format of the integer fields without padding.
Format02d_NoPad(n) == ToString(n)

\* f"{n:02d}": the sign counts in the width
Format02d(n) ==
    IF n < 0 THEN "-" \o ZeroPad(ToString(0 - n), 1) ELSE ZeroPad(ToString(n), 2)

\* A conversion to milliseconds that cuts the digits after the third.
RoundMillis_Truncates(t) == (t * 1000) \div TicksPerSecond

\* Correctly rounded (half to even) number of milliseconds in t ticks, t >= 0
RoundMillis(t) ==
    LET q == (t * 1000) \div TicksPerSecond
        r == (t * 1000) % TicksPerSecond
    IN  IF 2 * r > TicksPerSecond \/ (2 * r = TicksPerSecond /\ q % 2 = 1)
        THEN q + 1
        ELSE q

\* f"{secs:06.3f}" for 0 <= secs < 60: three decimals, zero padded to width 6
Format06_3f(t) ==
    LET ms == RoundMillis(t)
    IN  ZeroPad(ToString(ms \div 1000), 2) \o "." \o ZeroPad(ToString(ms % 1000), 3)

\* ------------------------------------------------------ format_timestamp

\* An hour field that wraps to two digits.
hours_Wrapped(seconds) == (seconds \div Sec(3600)) % 100

\* A minute field counted over the whole duration.
minutes_Total(seconds) == seconds \div Sec(60)

hours(seconds) == seconds \div Sec(3600)

minutes(seconds) == (seconds % Sec(3600)) \div Sec(60)

secs(seconds) == seconds % Sec(60)

format_timestamp(seconds) ==
    Format02d(hours(seconds)) \o ":" \o Format02d(minutes(seconds))
        \o ":" \o Format06_3f(secs(seconds))


\* ----------------------------------------------------------------- state

VARIABLES
    environ,          \* os.environ: the three variables the module reads
    PROXY_USERNAME,   \* module global, read from the environment at load
    PROXY_PASSWORD,   \* module global, read from the environment at load
    PROXY_LOCATIONS,  \* module global, read from the environment at load
    pc,               \* pc[s]: where the request in slot s is
    req,              \* req[s]: the request in slot s
    api,              \* api[s]: the client get_api_instance built for it
    fetchArgs,        \* fetchArgs[s]: the arguments api.fetch was called with
    fetched,          \* fetched[s]: the FetchedTranscript api.fetch returned
    result,           \* result[s]: what extract_transcript returned
    raised,           \* raised[s]: the exception extract_transcript caught
    resp,             \* resp[s]: the response sent
    calls,            \* calls[s]: calls made for the request, per callee
    logged            \* logged[s]: log records written for the request, per level

vars == <<environ, PROXY_USERNAME, PROXY_PASSWORD, PROXY_LOCATIONS, pc, req, api,
          fetchArgs, fetched, result, raised, resp, calls, logged>>

\* The module globals set at lines 75-77
proxy_globals == <<PROXY_USERNAME, PROXY_PASSWORD, PROXY_LOCATIONS>>

\* What no request handler assigns: the environment and the module globals
globals == <<environ, proxy_globals>>

NoCalls == [get_api_instance |-> 0, fetch |-> 0, to_raw_data |-> 0]

\* Nothing logged: the levels the module's logger is called at, and error.
NoRecords == [info |-> 0, warning |-> 0, error |-> 0]

NoResult == <<>>

\* extract_transcript's failure tuple (False, None, None)
Failure == <<FALSE, None, None>>

\* extract_transcript's success tuple (True, transcript_text, transcript_list)
Success(text, list) == <<TRUE, Some(text), Some(list)>>

\* Module load: os.getenv gives the globals the environment's values (a
\* variable that is not set reads as ""); no request yet.
InitWith(envs) ==
    /\ \E e \in envs :
        /\ environ = e
        /\ PROXY_USERNAME = e.WEBSHARE_PROXY_USERNAME
        /\ PROXY_PASSWORD = e.WEBSHARE_PROXY_PASSWORD
        /\ PROXY_LOCATIONS = e.PROXY_LOCATIONS
    /\ pc = [s \in Slots |-> "idle"]
    /\ req = [s \in Slots |-> NoRequest]
    /\ api = [s \in Slots |-> None]
    /\ fetchArgs = [s \in Slots |-> None]
    /\ fetched = [s \in Slots |-> NoFetched]
    /\ result = [s \in Slots |-> NoResult]
    /\ raised = [s \in Slots |-> None]
    /\ resp = [s \in Slots |-> None]
    /\ calls = [s \in Slots |-> NoCalls]
    /\ logged = [s \in Slots |-> NoRecords]

Init == InitWith(Environments)

\* ------------------------------------------------------ request binding

\* A validation that only asks for a body that parses.
ValidBody_ParsedOnly(r) == r.parsable

\* TranscriptRequest validation of a POST body: the body parses and
\* video_id is present.
ValidBody(r) == r.parsable /\ HasKey(r.args, "video_id")

\* A binding that normalises the video id to lower case.
video_id_Lowered(r) ==
    IF r.args.video_id = "Ab_c-1" THEN "ab_c-1" ELSE r.args.video_id

\* The video id the handler receives.
video_id(r) == r.args.video_id

\* A lang parameter without its default.
lang_NoDefault(r) == IF HasKey(r.args, "lang") THEN r.args.lang ELSE ""

\* The lang parameter of the two GET handlers: Query("en") when omitted.
lang(r) == IF HasKey(r.args, "lang") THEN r.args.lang ELSE "en"

\* request.language of the POST handler: Optional[str] = "en" when omitted.
request_language(r) ==
    IF HasKey(r.args, "language") THEN r.args.language ELSE Some("en")

\* request.language or "en": None and the empty string are falsy.
language_or_en(r) ==
    IF request_language(r) = None \/ request_language(r) = Some("")
    THEN "en"
    ELSE request_language(r)[1]

\* The language argument the handler passes to extract_transcript.
language(r) == IF r.op = "detailed" THEN language_or_en(r) ELSE lang(r)

\* FastAPI's answer to a POST body r that fails validation: 422 with the
\* list of pydantic's errors. A body that parses lacks video_id and is
\* echoed as input; the body that does not parse fails at its position 1.
ValidationError(r) ==
    [status |-> 422,
     body |-> [detail |->
        << IF r.parsable
           THEN [type |-> "missing", loc |-> <<"body", "video_id">>,
                 msg |-> "Field required", input |-> r.args]
           ELSE [type |-> "json_invalid", loc |-> <<"body", 1>>,
                 msg |-> "JSON decode error", input |-> EmptyObject,
                 ctx |-> [error |->
                    "Expecting property name enclosed in double quotes"]] >>]]

\* A liveness probe that reports the state of the transcript source.
health_check_Degraded ==
    IF \E s \in DOMAIN raised : raised[s] # None
    THEN [status |-> 503, body |-> [status |-> "unhealthy"]]
    ELSE [status |-> 200, body |-> [status |-> "healthy"]]

\* health_check, line 166
health_check == [status |-> 200, body |-> [status |-> "healthy"]]

\* The server's answer when a handler raises: not JSON but the plain text
\* "Internal Server Error".
ServerError ==
    [status |-> 500, content_type |-> "text/plain; charset=utf-8",
     text |-> "Internal Server Error"]

\* --------------------------------------------------------- get_api_instance

\* A filter_locations that splits and lower-cases without trimming.
filter_locations_NoStrip ==
    IF PROXY_LOCATIONS # <<>>
    THEN LET parts == SplitComma(PROXY_LOCATIONS)
         IN  Some([i \in 1..Len(parts) |-> Lower(parts[i])])
    ELSE None

\* filter_locations after lines 89-92
filter_locations ==
    IF PROXY_LOCATIONS # <<>>
    THEN LET parts == SplitComma(PROXY_LOCATIONS)
         IN  Some([i \in 1..Len(parts) |-> Lower(Strip(parts[i]))])
    ELSE None

\* A get_api_instance that takes a proxy as soon as one credential is set.
get_api_instance_EitherCredential ==
    IF PROXY_USERNAME # "" \/ PROXY_PASSWORD # ""
    THEN [proxy_config |->
            Some([proxy_username |-> PROXY_USERNAME,
                  proxy_password |-> PROXY_PASSWORD,
                  filter_ip_locations |->
                      IF filter_locations # None /\ filter_locations # Some(<<>>)
                      THEN filter_locations
                      ELSE None])]
    ELSE [proxy_config |-> None]

\* A get_api_instance that reads the environment at each call.
get_api_instance_ReadsEnviron ==
    IF environ.WEBSHARE_PROXY_USERNAME # "" /\ environ.WEBSHARE_PROXY_PASSWORD # ""
    THEN [proxy_config |->
            Some([proxy_username |-> environ.WEBSHARE_PROXY_USERNAME,
                  proxy_password |-> environ.WEBSHARE_PROXY_PASSWORD,
                  filter_ip_locations |->
                      IF environ.PROXY_LOCATIONS # <<>>
                      THEN LET parts == SplitComma(environ.PROXY_LOCATIONS)
                           IN  Some([i \in 1..Len(parts) |-> Lower(Strip(parts[i]))])
                      ELSE None])]
    ELSE [proxy_config |-> None]

\* The client get_api_instance returns.
get_api_instance ==
    IF PROXY_USERNAME # "" /\ PROXY_PASSWORD # ""
    THEN [proxy_config |->
            Some([proxy_username |-> PROXY_USERNAME,
                  proxy_password |-> PROXY_PASSWORD,
                  filter_ip_locations |->
                      IF filter_locations # None /\ filter_locations # Some(<<>>)
                      THEN filter_locations
                      ELSE None])]
    ELSE [proxy_config |-> None]

\* The logger.info calls of get_api_instance, lines 86, 92 and 103: one for
\* the transport, and one for the locations of a proxy that has them. They
\* come before the constructors are called.
LogTransport(records) ==
    [records EXCEPT !.info =
        @ + IF PROXY_USERNAME # "" /\ PROXY_PASSWORD # "" /\ PROXY_LOCATIONS # <<>>
            THEN 2 ELSE 1]

\* ------------------------------------------------------ extract_transcript

\* An except branch that reports the failure with logger.error.
LogFailure_AtError(records) == [records EXCEPT !.error = @ + 1]

\* The logger.warning call of either except branch, lines 150 and 155
LogFailure(records) == [records EXCEPT !.warning = @ + 1]

\* [segment["text"] for segment in transcript_list] raises KeyError on a
\* segment without text, and " ".join raises TypeError on a text of None.
TextsJoinable(list) ==
    \A i \in 1..Len(list) : HasKey(list[i], "text") /\ list[i].text # None

transcript_text(list) == SpaceJoin([i \in 1..Len(list) |-> list[i].text[1]])

\* An extract_transcript whose except branch hands back the data it has.
ExtractFromRaw_Partial(raw) ==
    IF raw.kind = "list" /\ TextsJoinable(raw.segments)
    THEN Success(transcript_text(raw.segments), raw.segments)
    ELSE IF raw.kind = "list" THEN <<FALSE, None, Some(raw.segments)>>
    ELSE Failure

\* An extract_transcript that treats an empty transcript as no transcript.
ExtractFromRaw_EmptyFails(raw) ==
    IF raw.kind = "list" /\ raw.segments # <<>> /\ TextsJoinable(raw.segments)
    THEN Success(transcript_text(raw.segments), raw.segments)
    ELSE Failure

\* Lines 142-156: what extract_transcript returns once fetch has returned a
\* FetchedTranscript whose to_raw_data() behaves as raw says.
ExtractFromRaw(raw) ==
    IF raw.kind = "list" /\ TextsJoinable(raw.segments)
    THEN Success(transcript_text(raw.segments), raw.segments)
    ELSE Failure

\* The exception lines 142-145 raise, if any: the one to_raw_data() raises,
\* the TypeError of indexing what is not a dict or of joining a None, the
\* KeyError of a segment without text (the first segment at fault decides).
RaisedFromRaw(raw) ==
    CASE raw.kind = "raise" -> Some(raw.exc)
      [] raw.kind = "junk" -> Some("TypeError")
      [] raw.kind = "list" ->
            IF \E i \in 1..Len(raw.segments) : ~HasKey(raw.segments[i], "text")
            THEN Some("KeyError")
            ELSE IF \E i \in 1..Len(raw.segments) : raw.segments[i].text = None
            THEN Some("TypeError")
            ELSE None


\* -------------------------------------------------------- response shaping

\* seg["text"], seg["start"] and seg["duration"] all succeed
HasAllKeys(seg) ==
    HasKey(seg, "text") /\ HasKey(seg, "start") /\ HasKey(seg, "duration")

\* A TranscriptSegment built with start and duration exchanged.
TranscriptSegment_Swapped(seg) ==
    [text |-> seg.text[1], start |-> seg.duration, duration |-> seg.start]

\* TranscriptSegment(text=seg["text"], start=seg["start"], duration=seg["duration"])
TranscriptSegment(seg) ==
    [text |-> seg.text[1], start |-> seg.start, duration |-> seg.duration]

\* A TimestampedSegment whose end is the duration alone.
TimestampedSegment_EndIsDuration(seg) ==
    [text |-> seg.text[1],
     start |-> seg.start,
     end |-> seg.duration,
     startFormatted |-> format_timestamp(seg.start),
     endFormatted |-> format_timestamp(seg.start + seg.duration)]

\* A TimestampedSegment whose endFormatted formats the start again.
TimestampedSegment_EndFormatsStart(seg) ==
    [text |-> seg.text[1],
     start |-> seg.start,
     end |-> seg.start + seg.duration,
     startFormatted |-> format_timestamp(seg.start),
     endFormatted |-> format_timestamp(seg.start)]

\* TimestampedSegment(...) of lines 272-278
TimestampedSegment(seg) ==
    [text |-> seg.text[1],
     start |-> seg.start,
     end |-> seg.start + seg.duration,
     startFormatted |-> format_timestamp(seg.start),
     endFormatted |-> format_timestamp(seg.start + seg.duration)]

\* A simple handler that lets a failed acquisition fault the server, as the
\* variant does that re-raises unknown errors.
get_transcript_simple_Faults(r, res) ==
    IF res[1]
    THEN [status |-> 200,
          body |-> [success |-> TRUE, videoId |-> video_id(r),
                    transcript |-> res[2], hasTranscript |-> TRUE]]
    ELSE ServerError

\* get_transcript_simple, lines 184-202
get_transcript_simple(r, res) ==
    IF res[1]
    THEN [status |-> 200,
          body |-> [success |-> TRUE, videoId |-> video_id(r),
                    transcript |-> res[2], hasTranscript |-> TRUE]]
    ELSE [status |-> 404,
          body |-> [success |-> FALSE, videoId |-> video_id(r),
                    transcript |-> None, hasTranscript |-> FALSE]]

\* get_transcript_detailed, lines 216-249
get_transcript_detailed(r, res) ==
    IF res[1]
    THEN LET raw_segments == res[3][1]
         IN  IF \A i \in 1..Len(raw_segments) : HasAllKeys(raw_segments[i])
             THEN [status |-> 200,
                   body |-> [success |-> TRUE, videoId |-> video_id(r),
                             transcript |-> res[2],
                             raw |-> Some([i \in 1..Len(raw_segments) |->
                                              TranscriptSegment(raw_segments[i])]),
                             language |-> Some(language_or_en(r))]]
             ELSE ServerError
    ELSE [status |-> 404,
          body |-> [success |-> FALSE, videoId |-> video_id(r),
                    transcript |-> None, raw |-> None,
                    language |-> Some(language_or_en(r))]]

\* A timestamped handler whose formatting faults on a time before zero.
get_transcript_with_timestamps_FaultsBeforeZero(r, res) ==
    IF res[1]
    THEN LET raw_segments == res[3][1]
         IN  IF \A i \in 1..Len(raw_segments) :
                    HasAllKeys(raw_segments[i]) /\ raw_segments[i].start >= 0
             THEN [status |-> 200,
                   body |-> [success |-> TRUE, videoId |-> video_id(r),
                             segments |-> Some([i \in 1..Len(raw_segments) |->
                                                  TimestampedSegment(raw_segments[i])]),
                             language |-> Some(lang(r))]]
             ELSE ServerError
    ELSE [status |-> 404,
          body |-> [success |-> FALSE, videoId |-> video_id(r),
                    segments |-> None, language |-> Some(lang(r))]]

\* get_transcript_with_timestamps, lines 267-297
get_transcript_with_timestamps(r, res) ==
    IF res[1]
    THEN LET raw_segments == res[3][1]
         IN  IF \A i \in 1..Len(raw_segments) : HasAllKeys(raw_segments[i])
             THEN [status |-> 200,
                   body |-> [success |-> TRUE, videoId |-> video_id(r),
                             segments |-> Some([i \in 1..Len(raw_segments) |->
                                                  TimestampedSegment(raw_segments[i])]),
                             language |-> Some(lang(r))]]
             ELSE ServerError
    ELSE [status |-> 404,
          body |-> [success |-> FALSE, videoId |-> video_id(r),
                    segments |-> None, language |-> Some(lang(r))]]

\* The response of the handler of r's operation to extract_transcript's result
Shape(r, res) ==
    CASE r.op = "simple" -> get_transcript_simple(r, res)
      [] r.op = "detailed" -> get_transcript_detailed(r, res)
      [] r.op = "timestamps" -> get_transcript_with_timestamps(r, res)

\* ---------------------------------------------------------------- actions

Idle(s) == pc[s] = "idle"

\* A request arrives in slot s. FastAPI binds and validates it: a POST body
\* that does not validate is answered 422 and the handler is not entered.
\* health_check is run to its end here: it returns its constant at once.
\* With exclusive set the server takes a request only when it is serving
\* no other one.
Receive(s, requests, exclusive) ==
    /\ Idle(s)
    /\ exclusive => \A t \in Slots : Idle(t)
    /\ \E r \in requests :
        /\ req' = [req EXCEPT ![s] = r]
        /\ IF r.op = "detailed" /\ ~ValidBody(r)
           THEN /\ resp' = [resp EXCEPT ![s] = Some(ValidationError(r))]
                /\ pc' = [pc EXCEPT ![s] = "done"]
           ELSE IF r.op = "health"
           THEN /\ resp' = [resp EXCEPT ![s] = Some(health_check)]
                /\ pc' = [pc EXCEPT ![s] = "done"]
           ELSE /\ resp' = resp
                /\ pc' = [pc EXCEPT ![s] = "handler"]
    /\ UNCHANGED <<globals, api, fetchArgs, fetched, result, raised, calls, logged>>

\* An extract_transcript that takes a client another request holds instead
\* of constructing one.
BuildClient_Reuses(s) ==
    /\ pc[s] = "handler"
    /\ IF \E t \in Slots : api[t] # None
       THEN /\ \E t \in Slots : api[t] # None /\ api' = [api EXCEPT ![s] = api[t]]
            /\ pc' = [pc EXCEPT ![s] = "built"]
            /\ UNCHANGED <<result, raised, calls, logged>>
       ELSE /\ calls' = [calls EXCEPT ![s].get_api_instance = @ + 1]
            /\ api' = [api EXCEPT ![s] = Some(get_api_instance)]
            /\ pc' = [pc EXCEPT ![s] = "built"]
            /\ logged' = [logged EXCEPT ![s] = LogTransport(@)]
            /\ UNCHANGED <<result, raised>>
    /\ UNCHANGED <<globals, req, fetchArgs, fetched, resp>>

\* Line 138: extract_transcript builds its client. The constructors are the
\* library's: they return the client or raise, and a raise is caught at
\* line 153.
BuildClient(s) ==
    /\ pc[s] = "handler"
    /\ calls' = [calls EXCEPT ![s].get_api_instance = @ + 1]
    /\ \E raises \in BOOLEAN :
        IF raises
        THEN /\ result' = [result EXCEPT ![s] = Failure]
             /\ raised' = [raised EXCEPT ![s] = Some("Exception")]
             /\ pc' = [pc EXCEPT ![s] = "extracted"]
             /\ api' = api
             /\ logged' = [logged EXCEPT ![s] = LogFailure(LogTransport(@))]
        ELSE /\ api' = [api EXCEPT ![s] = Some(get_api_instance)]
             /\ pc' = [pc EXCEPT ![s] = "built"]
             /\ logged' = [logged EXCEPT ![s] = LogTransport(@)]
             /\ UNCHANGED <<result, raised>>
    /\ UNCHANGED <<globals, req, fetchArgs, fetched, resp>>

\* A fetch after whose rate-limit error extract_transcript starts over with
\* a new client, up to five attempts.
Fetch_RetriesFresh(s, outcomes) ==
    /\ pc[s] = "built"
    /\ calls' = [calls EXCEPT ![s].fetch = @ + 1]
    /\ fetchArgs' = [fetchArgs EXCEPT ![s] =
            Some([video_id |-> video_id(req[s]), languages |-> <<language(req[s])>>])]
    /\ \E o \in outcomes :
        IF o.kind = "raise" /\ o.exc = RateLimitError /\ calls[s].fetch < 4
        THEN /\ pc' = [pc EXCEPT ![s] = "handler"]
             /\ UNCHANGED <<result, raised, fetched, logged>>
        ELSE IF o.kind = "raise"
        THEN /\ result' = [result EXCEPT ![s] = Failure]
             /\ raised' = [raised EXCEPT ![s] = Some(o.exc)]
             /\ pc' = [pc EXCEPT ![s] = "extracted"]
             /\ fetched' = fetched
             /\ logged' = [logged EXCEPT ![s] = LogFailure(@)]
        ELSE /\ fetched' = [fetched EXCEPT ![s] = o.raw]
             /\ pc' = [pc EXCEPT ![s] = "fetched"]
             /\ UNCHANGED <<result, raised, logged>>
    /\ UNCHANGED <<globals, req, api, resp>>

\* A fetch that is tried again after a rate-limit error.
Fetch_Retries(s, outcomes) ==
    /\ pc[s] = "built"
    /\ calls' = [calls EXCEPT ![s].fetch = @ + 1]
    /\ fetchArgs' = [fetchArgs EXCEPT ![s] =
            Some([video_id |-> video_id(req[s]), languages |-> <<language(req[s])>>])]
    /\ \E o \in outcomes :
        IF o.kind = "raise" /\ o.exc = RateLimitError /\ calls[s].fetch < 4
        THEN UNCHANGED <<result, raised, pc, fetched, logged>>
        ELSE IF o.kind = "raise"
        THEN /\ result' = [result EXCEPT ![s] = Failure]
             /\ raised' = [raised EXCEPT ![s] = Some(o.exc)]
             /\ pc' = [pc EXCEPT ![s] = "extracted"]
             /\ fetched' = fetched
             /\ logged' = [logged EXCEPT ![s] = LogFailure(@)]
        ELSE /\ fetched' = [fetched EXCEPT ![s] = o.raw]
             /\ pc' = [pc EXCEPT ![s] = "fetched"]
             /\ UNCHANGED <<result, raised, logged>>
    /\ UNCHANGED <<globals, req, api, resp>>

\* Line 139: api.fetch(video_id, languages=[language]); the source answers
\* with one of outcomes. Every exception is caught at lines 149-156.
Fetch(s, outcomes) ==
    /\ pc[s] = "built"
    /\ calls' = [calls EXCEPT ![s].fetch = @ + 1]
    /\ fetchArgs' = [fetchArgs EXCEPT ![s] =
            Some([video_id |-> video_id(req[s]), languages |-> <<language(req[s])>>])]
    /\ \E o \in outcomes :
        IF o.kind = "raise"
        THEN /\ result' = [result EXCEPT ![s] = Failure]
             /\ raised' = [raised EXCEPT ![s] = Some(o.exc)]
             /\ pc' = [pc EXCEPT ![s] = "extracted"]
             /\ fetched' = fetched
             /\ logged' = [logged EXCEPT ![s] = LogFailure(@)]
        ELSE /\ fetched' = [fetched EXCEPT ![s] = o.raw]
             /\ pc' = [pc EXCEPT ![s] = "fetched"]
             /\ UNCHANGED <<result, raised, logged>>
    /\ UNCHANGED <<globals, req, api, resp>>

\* Lines 142-156: to_raw_data(), the join and the return, or the except
\* branch when one of them raises.
Convert(s) ==
    /\ pc[s] = "fetched"
    /\ calls' = [calls EXCEPT ![s].to_raw_data = @ + 1]
    /\ result' = [result EXCEPT ![s] = ExtractFromRaw(fetched[s])]
    /\ raised' = [raised EXCEPT ![s] = RaisedFromRaw(fetched[s])]
    /\ logged' = [logged EXCEPT ![s] =
            IF RaisedFromRaw(fetched[s]) # None THEN LogFailure(@) ELSE @]
    /\ pc' = [pc EXCEPT ![s] = "extracted"]
    /\ UNCHANGED <<globals, req, api, fetchArgs, fetched, resp>>

\* A handler that shapes the result the process extracted last, kept in a
\* place all requests share.
Respond_SharedResult(s) ==
    /\ pc[s] = "extracted"
    /\ \E t \in Slots :
        /\ pc[t] \in {"extracted", "done"} /\ result[t] # NoResult
        /\ resp' = [resp EXCEPT ![s] = Some(Shape(req[s], result[t]))]
    /\ pc' = [pc EXCEPT ![s] = "done"]
    /\ UNCHANGED <<globals, req, api, fetchArgs, fetched, result, raised, calls,
                   logged>>

\* The handler shapes extract_transcript's result into the response.
Respond(s) ==
    /\ pc[s] = "extracted"
    /\ resp' = [resp EXCEPT ![s] = Some(Shape(req[s], result[s]))]
    /\ pc' = [pc EXCEPT ![s] = "done"]
    /\ UNCHANGED <<globals, req, api, fetchArgs, fetched, result, raised, calls,
                   logged>>

\* The response has been sent; nothing of the request is kept.
Release(s) ==
    /\ pc[s] = "done"
    /\ pc' = [pc EXCEPT ![s] = "idle"]
    /\ req' = [req EXCEPT ![s] = NoRequest]
    /\ api' = [api EXCEPT ![s] = None]
    /\ fetchArgs' = [fetchArgs EXCEPT ![s] = None]
    /\ fetched' = [fetched EXCEPT ![s] = NoFetched]
    /\ result' = [result EXCEPT ![s] = NoResult]
    /\ raised' = [raised EXCEPT ![s] = None]
    /\ resp' = [resp EXCEPT ![s] = None]
    /\ calls' = [calls EXCEPT ![s] = NoCalls]
    /\ logged' = [logged EXCEPT ![s] = NoRecords]
    /\ UNCHANGED globals

\* The process environment is changed (os.environ[...] = ..., monkeypatch
\* .setenv) after the module has been loaded. Nothing of the module reads it
\* again.
SetEnv(envs) ==
    /\ \E e \in envs : environ' = e /\ e # environ
    /\ UNCHANGED <<proxy_globals, pc, req, api, fetchArgs, fetched, result,
                   raised, resp, calls, logged>>

\* The server as uvicorn runs it: the handlers are coroutines that never
\* await, so a request is served to its end before the next one is taken.
Next ==
    \E s \in Slots :
        \/ Receive(s, AllRequests, TRUE)
        \/ BuildClient(s)
        \/ Fetch(s, FetchOutcomes)
        \/ Convert(s)
        \/ Respond(s)
        \/ Release(s)

Spec == Init /\ [][Next]_vars

\* A server whose handlers interleave and whose environment is changed while
\* it runs, started under every environment of ProxyEnvironments. Every
\* behaviour of the sequential server on these inputs is one of its
\* behaviours.
NextConcurrent ==
    \/ SetEnv(ChangedEnvironments)
    \/ \E s \in Slots :
        \/ Receive(s, ProbeRequests, FALSE)
        \/ BuildClient(s)
        \/ Fetch(s, ProbeOutcomes)
        \/ Convert(s)
        \/ Respond(s)
        \/ Release(s)

SpecConcurrent == InitWith(ProxyEnvironments) /\ [][NextConcurrent]_vars

\* A server whose handlers interleave in every way, on SideBySideRequests.
NextSideBySide ==
    \E s \in Slots :
        \/ Receive(s, SideBySideRequests, FALSE)
        \/ BuildClient(s)
        \/ Fetch(s, SideBySideOutcomes)
        \/ Convert(s)
        \/ Respond(s)
        \/ Release(s)

SpecSideBySide == Init /\ [][NextSideBySide]_vars

\* The sequential server answering timestamped requests for segments that
\* start anywhere in ClockTimes.
NextClock ==
    \E s \in Slots :
        \/ Receive(s, ClockRequests, TRUE)
        \/ BuildClient(s)
        \/ Fetch(s, ClockOutcomes)
        \/ Convert(s)
        \/ Respond(s)
        \/ Release(s)

SpecClock == Init /\ [][NextClock]_vars


\* ================================================================ claims

\* The request in slot s has been through extract_transcript.
Extracted(s) == pc[s] \in {"extracted", "done"} /\ calls[s].get_api_instance > 0

\* The response sent for the request in slot s, once there is one.
Answered(s) == pc[s] = "done"

response(s) == resp[s][1]

\* The texts of a list of well-formed segments.
TextsOf(list) == [i \in 1..Len(list) |-> list[i].text[1]]

\* The space-join built from the left: the join of all but the last text,
\* one space, the last text.
RECURSIVE JoinedBySpaces(_)
JoinedBySpaces(texts) ==
    IF texts = <<>> THEN ""
    ELSE IF Len(texts) = 1 THEN texts[1]
    ELSE JoinedBySpaces(SubSeq(texts, 1, Len(texts) - 1)) \o " " \o texts[Len(texts)]

\* C1: extract_transcript propagates nothing. Whenever something raised in
\* its try block (building the client, fetch, to_raw_data or the join) it
\* returns exactly (False, None, None); otherwise it returns (True, text,
\* segments) with the segments the source returned. No other tuple occurs.
C1_ExtractTotal ==
    \A s \in Slots :
        Extracted(s) =>
            /\ raised[s] # None => result[s] = <<FALSE, <<>>, <<>>>>
            /\ fetched[s].kind \in {"none", "raise", "junk"} => raised[s] # None
            /\ raised[s] = None =>
                /\ result[s][1] = TRUE
                /\ Len(result[s][2]) = 1
                /\ result[s][3] = <<fetched[s].segments>>

\* C1 witness: a null text made the join raise and the failure tuple came back.
C1_Witness ==
    \E s \in Slots :
        /\ Extracted(s)
        /\ fetched[s].kind = "list"
        /\ raised[s] = Some("TypeError")
        /\ result[s] = Failure

\* C2: whatever the source does, a transcript operation that entered its
\* handler answers 200 or 404, never 500.
C2_NoServerFault ==
    \A s \in Slots :
        Answered(s) /\ Extracted(s) => response(s).status \in {200, 404}

\* C3: the response is 200 with success=true exactly when extract_transcript
\* returned success, and 404 with success=false exactly when it returned
\* failure.
C3_StatusFollowsAcquisition ==
    \A s \in Slots :
        Answered(s) /\ Extracted(s) =>
            /\ result[s][1] => response(s).status = 200 /\ response(s).body.success
            /\ ~result[s][1] => response(s).status = 404 /\ ~response(s).body.success

\* C4: the transcript text of a successful acquisition is the texts of all
\* segments, in order, joined by single spaces, empty texts included; the
\* simple and the detailed operation return that text.
C4_TranscriptIsSpaceJoin ==
    \A s \in Slots :
        Extracted(s) /\ result[s][1] =>
            LET texts == TextsOf(fetched[s].segments)
            IN  /\ result[s][2] = Some(JoinedBySpaces(texts))
                /\ texts = <<"Hello", "", "world">> => result[s][2] = Some("Hello  world")
                /\ texts = <<"", "world">> => result[s][2] = Some(" world")
                /\ Answered(s) /\ req[s].op \in {"simple", "detailed"}
                        /\ response(s).status = 200
                    => response(s).body.transcript = Some(JoinedBySpaces(texts))

\* C4 witness: the simple operation answered "Hello  world" for the texts
\* "Hello", "", "world".
C4_Witness ==
    \E s \in Slots :
        /\ Answered(s) /\ req[s].op = "simple"
        /\ fetched[s].kind = "list" /\ Len(fetched[s].segments) = 3
        /\ response(s).status = 200
        /\ response(s).body.transcript = Some("Hello  world")

\* C5: an empty segment list is a success: extract_transcript returns
\* (True, "", []) and the operations answer 200 with transcript "" and
\* hasTranscript true (simple), raw [] (detailed), segments [] (timestamped).
C5_EmptyIsSuccess ==
    \A s \in Slots :
        Extracted(s) /\ fetched[s] = [kind |-> "list", segments |-> <<>>] =>
            /\ result[s] = <<TRUE, <<"">>, << <<>> >> >>
            /\ Answered(s) =>
                /\ response(s).status = 200
                /\ response(s).body.success
                /\ req[s].op = "simple" =>
                    /\ response(s).body.transcript = Some("")
                    /\ response(s).body.hasTranscript
                /\ req[s].op = "detailed" =>
                    /\ response(s).body.transcript = Some("")
                    /\ response(s).body.raw = Some(<<>>)
                /\ req[s].op = "timestamps" => response(s).body.segments = Some(<<>>)

\* C5 witness: the detailed operation answered an empty transcript.
C5_Witness ==
    \E s \in Slots :
        /\ Answered(s) /\ req[s].op = "detailed"
        /\ fetched[s] = [kind |-> "list", segments |-> <<>>]
        /\ response(s).body.raw = Some(<<>>)


\* C6: a successful detailed response carries raw with the length and order
\* of the acquired segments, raw[i] holding exactly the text, start and
\* duration of segment i, and transcript equal to the joined text.
C6_DetailedRawIsAcquired ==
    \A s \in Slots :
        Answered(s) /\ req[s].op = "detailed" /\ response(s).status = 200 =>
            LET acquired == fetched[s].segments
                raw == response(s).body.raw[1]
            IN  /\ Len(raw) = Len(acquired)
                /\ \A i \in 1..Len(raw) :
                    /\ DOMAIN raw[i] = {"text", "start", "duration"}
                    /\ raw[i].text = acquired[i].text[1]
                    /\ raw[i].start = acquired[i].start
                    /\ raw[i].duration = acquired[i].duration
                /\ response(s).body.transcript = Some(JoinedBySpaces(TextsOf(acquired)))

\* C6 witness: a detailed response with three raw segments whose starts are
\* not in increasing order.
C6_Witness ==
    \E s \in Slots :
        /\ Answered(s) /\ req[s].op = "detailed" /\ response(s).status = 200
        /\ Len(response(s).body.raw[1]) = 3
        /\ response(s).body.raw[1][1].start > response(s).body.raw[1][2].start
        /\ response(s).body.raw[1][1].duration # response(s).body.raw[1][1].start

\* C7: in a successful timestamped response segments[i].end is
\* segments[i].start plus the duration of acquired segment i; with a zero
\* duration end equals start.
C7_EndIsStartPlusDuration ==
    \A s \in Slots :
        Answered(s) /\ req[s].op = "timestamps" /\ response(s).status = 200 =>
            LET acquired == fetched[s].segments
                segments == response(s).body.segments[1]
            IN  \A i \in 1..Len(acquired) :
                    /\ i \in DOMAIN segments
                    /\ segments[i].end = segments[i].start + acquired[i].duration
                    /\ acquired[i].duration = 0 => segments[i].end = segments[i].start

\* C7 witness: a timestamped response with a zero-duration segment after a
\* segment of start 2.5 s and duration 2 s.
C7_Witness ==
    \E s \in Slots :
        /\ Answered(s) /\ req[s].op = "timestamps" /\ response(s).status = 200
        /\ Len(response(s).body.segments[1]) = 2
        /\ response(s).body.segments[1][1].start = Sec(5) \div 2
        /\ response(s).body.segments[1][1].end = Sec(9) \div 2
        /\ fetched[s].segments[2].duration = 0
        /\ response(s).body.segments[1][2].end = Sec(5)

\* C8: a successful timestamped response has the length and order of the
\* acquired segments (no sorting), with text and start of segment i,
\* startFormatted the format of start and endFormatted the format of
\* start + duration, so the formatted fields agree with the numeric ones.
C8_TimestampedSegmentsFollowAcquired ==
    \A s \in Slots :
        Answered(s) /\ req[s].op = "timestamps" /\ response(s).status = 200 =>
            LET acquired == fetched[s].segments
                segments == response(s).body.segments[1]
            IN  /\ Len(segments) = Len(acquired)
                /\ \A i \in 1..Len(segments) :
                    /\ segments[i].text = acquired[i].text[1]
                    /\ segments[i].start = acquired[i].start
                    /\ segments[i].startFormatted = format_timestamp(acquired[i].start)
                    /\ segments[i].endFormatted =
                           format_timestamp(acquired[i].start + acquired[i].duration)
                    /\ segments[i].startFormatted = format_timestamp(segments[i].start)
                    /\ segments[i].endFormatted = format_timestamp(segments[i].end)
                    /\ acquired[i].start = Sec(3665) + Sec(1) \div 8 =>
                        /\ segments[i].startFormatted = "01:01:05.125"
                        /\ segments[i].endFormatted = "01:01:07.625"

\* C8 witness: a timestamped response whose first segment starts after the
\* second one and is formatted as "01:01:05.125".
C8_Witness ==
    \E s \in Slots :
        /\ Answered(s) /\ req[s].op = "timestamps" /\ response(s).status = 200
        /\ Len(response(s).body.segments[1]) = 2
        /\ response(s).body.segments[1][1].start > response(s).body.segments[1][2].start
        /\ response(s).body.segments[1][1].startFormatted = "01:01:05.125"
        /\ response(s).body.segments[1][2].endFormatted = "00:00:01.500"

\* The language a response echoes: the lang parameter, "en" when omitted;
\* for the detailed operation "en" also stands in for a null or empty one.
EchoedLanguage(r) ==
    CASE r.op = "timestamps" ->
            IF "lang" \in DOMAIN r.args THEN r.args.lang ELSE "en"
      [] r.op = "detailed" ->
            IF "language" \in DOMAIN r.args /\ r.args.language \notin {<<>>, <<"">>}
            THEN r.args.language[1]
            ELSE "en"

\* The failure body of r's operation, which only the request decides.
FailureBody(r) ==
    CASE r.op = "simple" ->
            [success |-> FALSE, videoId |-> r.args.video_id,
             transcript |-> None, hasTranscript |-> FALSE]
      [] r.op = "detailed" ->
            [success |-> FALSE, videoId |-> r.args.video_id,
             transcript |-> None, raw |-> None, language |-> Some(EchoedLanguage(r))]
      [] r.op = "timestamps" ->
            [success |-> FALSE, videoId |-> r.args.video_id,
             segments |-> None, language |-> Some(EchoedLanguage(r))]

\* C9: the failure response does not depend on the cause. Whatever was
\* raised (one of the four classified errors or any other exception), the
\* response is 404 with the operation's fixed failure body, a function of
\* the request alone, so two runs of one request that differ in the cause
\* answer identically.
C9_FailureResponseIgnoresCause ==
    \A s \in Slots :
        Answered(s) /\ Extracted(s) /\ raised[s] # None =>
            response(s) = [status |-> 404, body |-> FailureBody(req[s])]

\* C9 witness: an unclassified exception of fetch answered by the simple
\* operation's 404.
C9_Witness ==
    \E s \in Slots :
        /\ Answered(s) /\ req[s].op = "simple"
        /\ calls[s].fetch = 1 /\ raised[s] = Some("Exception")
        /\ response(s).status = 404

\* The POST body in slot s is unparsable or lacks video_id.
Rejectable(s) ==
    /\ req[s].op = "detailed"
    /\ ~req[s].parsable \/ "video_id" \notin DOMAIN req[s].args

\* C10: a detailed request whose body is unparsable or lacks video_id is
\* answered 422, not 404, and nothing of the acquisition ever runs for it:
\* no client is built, fetch is not called, no result exists.
C10_InvalidBodyRejectedBeforeAcquisition ==
    \A s \in Slots :
        Rejectable(s) =>
            /\ Answered(s)
            /\ response(s).status = 422
            /\ response(s).status # 404
            /\ calls[s] = [get_api_instance |-> 0, fetch |-> 0, to_raw_data |-> 0]
            /\ fetchArgs[s] = None
            /\ result[s] = NoResult

\* C10 witness: the empty JSON object was answered 422.
C10_Witness ==
    \E s \in Slots :
        /\ req[s].op = "detailed" /\ req[s].parsable /\ req[s].args = EmptyObject
        /\ Answered(s)
        /\ response(s).status = 422


\* The response in slot s has the success or the failure shape of its
\* operation.
Shaped(s) ==
    /\ Answered(s)
    /\ req[s].op \in {"simple", "detailed", "timestamps"}
    /\ response(s).status \in {200, 404}

\* C11: in the detailed and timestamped operations the language of the
\* response, success or failure, is the language string the caller sent,
\* the empty string included.
C11_LanguageEchoed ==
    \A s \in Slots :
        Shaped(s) =>
            /\ req[s].op = "timestamps" /\ "lang" \in DOMAIN req[s].args =>
                response(s).body.language = <<req[s].args.lang>>
            /\ req[s].op = "detailed" /\ "language" \in DOMAIN req[s].args
                    /\ req[s].args.language # None =>
                response(s).body.language = req[s].args.language

\* C12: when the caller omits the language, fetch is called with ["en"] and
\* the language of the response is "en".
C12_LanguageDefaultsToEn ==
    \A s \in Slots :
        /\ req[s].op \in {"simple", "detailed", "timestamps"}
        /\ "lang" \notin DOMAIN req[s].args
        /\ "language" \notin DOMAIN req[s].args
        =>  /\ fetchArgs[s] # None => fetchArgs[s][1].languages = <<"en">>
            /\ Shaped(s) /\ req[s].op # "simple" =>
                response(s).body.language = <<"en">>

\* C12 witness: a timestamped request without lang was fetched and answered.
C12_Witness ==
    \E s \in Slots :
        /\ req[s] = [op |-> "timestamps", parsable |-> TRUE,
                     args |-> [video_id |-> "dQw4w9WgXcQ"]]
        /\ Shaped(s)
        /\ fetchArgs[s] # None
        /\ response(s).body.language = <<"en">>

\* C13: videoId of every success or failure response is the video id of
\* the request, character for character, and fetch is called with that id.
C13_VideoIdUnchanged ==
    \A s \in Slots :
        /\ Shaped(s) => response(s).body.videoId = req[s].args.video_id
        /\ fetchArgs[s] # None => fetchArgs[s][1].video_id = req[s].args.video_id

\* C13 witness: the mixed-case id "Ab_c-1" was fetched and came back in a
\* failure response.
C13_Witness ==
    \E s \in Slots :
        /\ Shaped(s)
        /\ req[s].args.video_id = "Ab_c-1"
        /\ fetchArgs[s] # None
        /\ response(s).status = 404
        /\ response(s).body.videoId = "Ab_c-1"


Built(s) == api[s] # None

client(s) == api[s][1]

Proxied(s) == Built(s) /\ client(s).proxy_config # None

\* C14: a client is proxied exactly when the configured username and
\* password are both non-empty; otherwise it has no proxy configuration at
\* all, whatever the location list holds.
C14_ProxyIffBothCredentials ==
    \A s \in Slots :
        Built(s) =>
            IF PROXY_USERNAME # "" /\ PROXY_PASSWORD # ""
            THEN /\ DOMAIN client(s) = {"proxy_config"}
                 /\ client(s).proxy_config # None
                 /\ client(s).proxy_config[1].proxy_username = PROXY_USERNAME
                 /\ client(s).proxy_config[1].proxy_password = PROXY_PASSWORD
            ELSE client(s) = [proxy_config |-> None]

\* C14 witness: with a username, no password and a location list, a direct
\* client was built.
C14_Witness ==
    \E s \in Slots :
        /\ PROXY_USERNAME = "testuser" /\ PROXY_PASSWORD = ""
        /\ PROXY_LOCATIONS = Chars("US,DE")
        /\ Built(s) /\ ~Proxied(s)

\* C14 witness, other side: with both credentials a proxied client was built.
C14_WitnessProxied ==
    \E s \in Slots :
        /\ PROXY_USERNAME = "testuser" /\ PROXY_PASSWORD = "testpass"
        /\ Proxied(s)

\* The characters of cs that are not whitespace
NoWhitespace(cs) == SelectSeq(cs, LAMBDA c : c \notin Whitespace)

RECURSIVE JoinedByCommas(_)
JoinedByCommas(entries) ==
    IF Len(entries) = 0 THEN <<>>
    ELSE IF Len(entries) = 1 THEN entries[1]
    ELSE entries[1] \o <<",">> \o JoinedByCommas(Tail(entries))

\* C15: the filter of a proxied client is None if the location string is
\* empty; otherwise its entries hold no comma, no upper-case letter and no
\* whitespace and, joined by commas in their order, they spell the location
\* string lower-cased and without its whitespace (no location string of the
\* model has whitespace inside an entry). " us , de , gb " gives
\* ["us","de","gb"] and "US,DE" gives ["us","de"].
C15_LocationFilter ==
    \A s \in Slots :
        Proxied(s) =>
            LET filter == client(s).proxy_config[1].filter_ip_locations
            IN  /\ PROXY_LOCATIONS = <<>> <=> filter = None
                /\ filter # None =>
                    /\ \A i \in 1..Len(filter[1]) : \A k \in 1..Len(filter[1][i]) :
                            /\ filter[1][i][k] # ","
                            /\ filter[1][i][k] \notin Whitespace
                            /\ \A u \in DOMAIN UpperChars :
                                    filter[1][i][k] # UpperChars[u]
                    /\ JoinedByCommas(filter[1])
                        = NoWhitespace([k \in 1..Len(PROXY_LOCATIONS) |->
                                            LowerChar(PROXY_LOCATIONS[k])])
                /\ PROXY_LOCATIONS = Chars(" us , de , gb ") =>
                    filter = Some(<<Chars("us"), Chars("de"), Chars("gb")>>)
                /\ PROXY_LOCATIONS = Chars("US,DE") =>
                    filter = Some(<<Chars("us"), Chars("de")>>)

\* C15 witness: a proxied client was built from " us , de , gb ".
C15_Witness ==
    \E s \in Slots :
        /\ Proxied(s)
        /\ PROXY_LOCATIONS = Chars(" us , de , gb ")
        /\ client(s).proxy_config[1].filter_ip_locations
            = Some(<<Chars("us"), Chars("de"), Chars("gb")>>)

\* C15 witness, empty string: a proxied client without a filter.
C15_WitnessNone ==
    \E s \in Slots :
        /\ Proxied(s)
        /\ PROXY_LOCATIONS = <<>>
        /\ client(s).proxy_config[1].filter_ip_locations = None

\* The selection get_api_instance makes for slot s is the one the
\* environment e calls for: proxied exactly when e holds both credentials,
\* then with e's credentials and a filter exactly when e holds locations.
SelectedFrom(s, e) ==
    IF e.WEBSHARE_PROXY_USERNAME # "" /\ e.WEBSHARE_PROXY_PASSWORD # ""
    THEN /\ client(s).proxy_config # None
         /\ client(s).proxy_config[1].proxy_username = e.WEBSHARE_PROXY_USERNAME
         /\ client(s).proxy_config[1].proxy_password = e.WEBSHARE_PROXY_PASSWORD
         /\ client(s).proxy_config[1].filter_ip_locations = None
                <=> e.PROXY_LOCATIONS = <<>>
    ELSE client(s).proxy_config = None

\* C16: the configuration is read once. Whatever environment the module was
\* loaded under, every client built afterwards is selected from that
\* environment, the module's three values never change, and clients built
\* before and after a change of the environment are the same.
C16_ConfigurationReadOnce ==
    \A e \in ProxyEnvironments :
        environ = e =>
            [](/\ <<PROXY_USERNAME, PROXY_PASSWORD, PROXY_LOCATIONS>>
                    = <<e.WEBSHARE_PROXY_USERNAME, e.WEBSHARE_PROXY_PASSWORD,
                        e.PROXY_LOCATIONS>>
               /\ \A s \in Slots : Built(s) => SelectedFrom(s, e)
               /\ \A s, t \in Slots : Built(s) /\ Built(t) => api[s] = api[t])

\* C16 witness: the environment now holds other credentials than the ones
\* the module loaded, one request has its answer from a proxied client and
\* another holds a client it has not fetched with yet, with the loaded
\* credentials.
C16_Witness ==
    \E s, t \in Slots :
        /\ environ.WEBSHARE_PROXY_USERNAME = "other"
        /\ PROXY_USERNAME = "testuser" /\ PROXY_PASSWORD = "testpass"
        /\ Answered(s) /\ Proxied(s)
        /\ pc[t] = "built" /\ Proxied(t)
        /\ client(t).proxy_config[1].proxy_username = "testuser"

\* C17: one call of extract_transcript makes exactly one get_api_instance
\* call and at most one fetch call, whatever the fetch does: never a second
\* attempt.
C17_OneFetchNoRetry ==
    \A s \in Slots :
        /\ calls[s].get_api_instance <= 1
        /\ calls[s].fetch <= calls[s].get_api_instance
        /\ Extracted(s) => calls[s].get_api_instance = 1
        /\ raised[s] # None => pc[s] \in {"extracted", "done"}
        /\ Extracted(s) /\ result[s][1] => calls[s].fetch = 1

\* C17 witness: a fetch failed with a rate-limit error and extract_transcript
\* returned after that one call.
C17_Witness ==
    \E s \in Slots :
        /\ Extracted(s)
        /\ raised[s] = Some(RateLimitError)
        /\ calls[s].get_api_instance = 1
        /\ calls[s].fetch = 1
        /\ result[s] = Failure

\* C18: the liveness probe is answered at once with 200 and exactly
\* {status: "healthy"}, whatever the other requests are doing, and it builds
\* no client and makes no fetch.
C18_HealthNeverFails ==
    \A s \in Slots :
        req[s].op = "health" =>
            /\ Answered(s)
            /\ resp[s] = Some([status |-> 200, body |-> [status |-> "healthy"]])
            /\ calls[s] = NoCalls
            /\ api[s] = None /\ fetchArgs[s] = None /\ fetched[s] = NoFetched
            /\ result[s] = NoResult /\ raised[s] = None

\* C18 witness: the probe was answered healthy while another request's
\* fetch had just failed and was not answered yet.
C18_Witness ==
    \E s, t \in Slots :
        /\ req[s].op = "health" /\ Answered(s)
        /\ response(s).body = [status |-> "healthy"]
        /\ pc[t] = "extracted" /\ raised[t] = Some("VideoUnavailable")
        /\ calls[t].fetch = 1

\* ------------------------------------------- the rendered clock strings

Digits == <<"0", "1", "2", "3", "4", "5", "6", "7", "8", "9">>

CharAt(str, i) == SubSeq(str, i, i)

IsDigit(c) == \E d \in 1..10 : Digits[d] = c

\* The number a string of digits writes
RECURSIVE DigitsValue(_, _)
DigitsValue(str, n) ==
    IF n = 0 THEN 0
    ELSE 10 * DigitsValue(str, n - 1)
            + (CHOOSE d \in 1..10 : Digits[d] = CharAt(str, n)) - 1

\* str matches ^\d{2,}:\d{2}:\d{2}\.\d{3}$
HasClockShape(str) ==
    LET n == Len(str)
    IN  /\ n >= 12
        /\ \A i \in 1..(n - 10) : IsDigit(CharAt(str, i))
        /\ CharAt(str, n - 9) = ":"
        /\ IsDigit(CharAt(str, n - 8)) /\ IsDigit(CharAt(str, n - 7))
        /\ CharAt(str, n - 6) = ":"
        /\ IsDigit(CharAt(str, n - 5)) /\ IsDigit(CharAt(str, n - 4))
        /\ CharAt(str, n - 3) = "."
        /\ IsDigit(CharAt(str, n - 2)) /\ IsDigit(CharAt(str, n - 1))
        /\ IsDigit(CharAt(str, n))

\* The hour field of a clock string: all that stands before the minutes
HourField(str) == SubSeq(str, 1, Len(str) - 10)

MinuteField(str) == SubSeq(str, Len(str) - 8, Len(str) - 7)

\* The timestamped request in slot s was answered with its segments.
Timestamped(s) ==
    Answered(s) /\ req[s].op = "timestamps" /\ response(s).status = 200

\* C19: a timestamped request whose acquired segments have their keys and
\* non-negative times is answered 200 (formatting raises nothing), and
\* every startFormatted and endFormatted has the shape HH:MM:SS.mmm with at
\* least two hour digits.
C19_ClockShape ==
    \A s \in Slots :
        /\ Answered(s) /\ req[s].op = "timestamps" /\ result[s][1]
                /\ (\A i \in 1..Len(result[s][3][1]) :
                        HasAllKeys(result[s][3][1][i]))
            => response(s).status = 200
        /\ Timestamped(s) =>
            \A i \in 1..Len(response(s).body.segments[1]) :
                LET seg == response(s).body.segments[1][i]
                IN  /\ seg.start >= 0 => HasClockShape(seg.startFormatted)
                    /\ seg.end >= 0 => HasClockShape(seg.endFormatted)

\* C19 witness: a start of 100 hours and one tick under a minute was
\* formatted, with thirteen characters.
C19_Witness ==
    \E s \in Slots :
        /\ Timestamped(s)
        /\ response(s).body.segments[1][1].start
                = Sec(3600) * 100 + Sec(59) + 2047
        /\ Len(response(s).body.segments[1][1].startFormatted) = 13
        /\ HasClockShape(response(s).body.segments[1][1].startFormatted)

\* C20: for a non-negative start s the hour field of the formatted start
\* writes floor(s / 3600), with three digits or more from 100 hours on, and
\* the minute field writes floor((s mod 3600) / 60); the same for the end.
\* 3600 s gives "01:00:00.000", 7384.5 s gives "02:03:04.500" and
\* 3665.123 s (252 ticks past 3665 s) gives "01:01:05.123".
C20_HourAndMinuteFields ==
    \A s \in Slots :
        Timestamped(s) =>
            \A i \in 1..Len(response(s).body.segments[1]) :
                LET seg == response(s).body.segments[1][i]
                    Fields(t, str) ==
                        t >= 0 =>
                            /\ Len(str) >= 12
                            /\ \A k \in 1..Len(HourField(str)) :
                                    IsDigit(CharAt(HourField(str), k))
                            /\ DigitsValue(HourField(str), Len(HourField(str)))
                                    = t \div (3600 * TicksPerSecond)
                            /\ t >= 100 * 3600 * TicksPerSecond
                                    => Len(HourField(str)) >= 3
                            /\ IsDigit(CharAt(MinuteField(str), 1))
                            /\ IsDigit(CharAt(MinuteField(str), 2))
                            /\ DigitsValue(MinuteField(str), 2)
                                    = (t % (3600 * TicksPerSecond))
                                            \div (60 * TicksPerSecond)
                IN  /\ Fields(seg.start, seg.startFormatted)
                    /\ Fields(seg.end, seg.endFormatted)
                    /\ seg.start = 3600 * TicksPerSecond
                            => seg.startFormatted = "01:00:00.000"
                    /\ seg.start = 7384 * TicksPerSecond + TicksPerSecond \div 2
                            => seg.startFormatted = "02:03:04.500"
                    /\ seg.start = 3665 * TicksPerSecond + 252
                            => seg.startFormatted = "01:01:05.123"

\* C20 witness: a start of 277 hours 59 minutes was formatted with a
\* three-digit hour field.
C20_Witness ==
    \E s \in Slots :
        /\ Timestamped(s)
        /\ response(s).body.segments[1][1].start = Sec(3600) * 277 + Sec(60) * 59
        /\ response(s).body.segments[1][1].startFormatted = "277:59:00.000"

\* The milliseconds a clock string denotes: HH*3600 + MM*60 + SS.mmm
DenotedMillis(str) ==
    LET n == Len(str)
    IN  (DigitsValue(HourField(str), Len(HourField(str))) * 3600
            + DigitsValue(MinuteField(str), 2) * 60
            + DigitsValue(SubSeq(str, n - 5, n - 4), 2)) * 1000
        + DigitsValue(SubSeq(str, n - 2, n), 3)

\* ms is t ticks rounded to the nearest millisecond (either neighbour when t
\* is half-way), and not t cut to the millisecond below when the next one
\* is nearer.
IsNearestMillis(ms, t) ==
    LET whole == t \div TicksPerSecond
        frac == t % TicksPerSecond
        d == ms - whole * 1000
        below == (frac * 1000) \div TicksPerSecond
        rest == (frac * 1000) % TicksPerSecond
    IN  /\ d \in {below, below + 1}
        /\ 2 * rest < TicksPerSecond => d = below
        /\ 2 * rest > TicksPerSecond => d = below + 1

\* C21: for a non-negative start or end, the time the formatted string
\* denotes is the time rounded to the nearest millisecond, never the time
\* truncated; the first tick above 0.3 s gives "00:00:00.300".
C21_RoundsToMillisecond ==
    \A s \in Slots :
        Timestamped(s) =>
            \A i \in 1..Len(response(s).body.segments[1]) :
                LET seg == response(s).body.segments[1][i]
                IN  /\ seg.start >= 0 /\ HasClockShape(seg.startFormatted) =>
                        IsNearestMillis(DenotedMillis(seg.startFormatted), seg.start)
                    /\ seg.end >= 0 /\ HasClockShape(seg.endFormatted) =>
                        IsNearestMillis(DenotedMillis(seg.endFormatted), seg.end)
                    /\ seg.start >= 0 => HasClockShape(seg.startFormatted)
                    /\ seg.start = 615 => seg.startFormatted = "00:00:00.300"

\* C21 witness: 2 h 3 min 4 s and 2047 ticks (4.99951 s) was formatted
\* "02:03:05.000", rounded up across the second, where cutting gives 04.999.
C21_Witness ==
    \E s \in Slots :
        /\ Timestamped(s)
        /\ response(s).body.segments[1][1].start
                = Sec(3600) * 2 + Sec(60) * 3 + Sec(4) + 2047
        /\ response(s).body.segments[1][1].startFormatted = "02:03:05.000"
        /\ DenotedMillis(response(s).body.segments[1][1].startFormatted) = 7385000

\* All that the model holds for the request in slot s
slot(s) ==
    <<pc[s], req[s], api[s], fetchArgs[s], fetched[s], result[s], raised[s],
      resp[s], calls[s], logged[s]>>

\* The response to request r when it is processed alone and the source
\* answers raw, or nothing (NoFetched) when construction or fetch failed
ProcessedAlone(r, raw) ==
    Shape(r, IF raw = NoFetched THEN Failure ELSE ExtractFromRaw(raw))

\* C22: under every interleaving each transcript response is the one its
\* request gets alone with the same upstream result, fetch is called with
\* the request's own video id and language, and a step of one request
\* changes nothing that is held for another.
C22_RequestsIndependent ==
    /\ [](\A s \in Slots :
            /\ Answered(s) /\ req[s].op \in {"simple", "timestamps"} =>
                response(s) = ProcessedAlone(req[s], fetched[s])
            /\ fetchArgs[s] # None =>
                fetchArgs[s][1] = [video_id |-> req[s].args.video_id,
                                   languages |->
                                        <<IF "lang" \in DOMAIN req[s].args
                                          THEN req[s].args.lang ELSE "en">>])
    /\ [][\A s, t \in Slots :
            s # t /\ slot(s)' # slot(s) => slot(t)' = slot(t)]_vars

\* C22 witness: two requests are answered side by side, the simple one for
\* "dQw4w9WgXcQ" with 404 and the timestamped one for "Ab_c-1" with the
\* segment "world".
C22_Witness ==
    \E s, t \in Slots :
        /\ Answered(s) /\ req[s].op = "simple" /\ response(s).status = 404
        /\ response(s).body.videoId = "dQw4w9WgXcQ"
        /\ Answered(t) /\ req[t].op = "timestamps" /\ response(t).status = 200
        /\ response(t).body.videoId = "Ab_c-1"
        /\ response(t).body.language = <<"en-US">>
        /\ response(t).body.segments[1][1].text = "world"

\* C26 as stated: a failed acquisition has written exactly one record, at
\* warning level, and no acquisition writes at error level.
C26_OneRecordAtWarning ==
    \A s \in Slots :
        /\ logged[s].error = 0
        /\ Extracted(s) /\ ~result[s][1] =>
            logged[s] = [info |-> 0, warning |-> 1, error |-> 0]

\* C26, amended: a failed acquisition has written exactly one record at
\* warning level and none at error level; its other records are the info
\* records of get_api_instance, one for the transport and one more for the
\* locations of a proxy. A successful acquisition has written no warning.
C26_OneWarningBesideInfo ==
    \A s \in Slots :
        /\ logged[s].error = 0
        /\ Extracted(s) =>
            /\ logged[s].warning = (IF result[s][1] THEN 0 ELSE 1)
            /\ logged[s].info =
                (IF PROXY_USERNAME # "" /\ PROXY_PASSWORD # ""
                        /\ PROXY_LOCATIONS # <<>>
                 THEN 2 ELSE 1)
        /\ ~Extracted(s) => logged[s].warning = 0

\* C26 witness: fetch raised TranscriptsDisabled behind a proxy with
\* locations: one warning after two info records.
C26_Witness ==
    \E s \in Slots :
        /\ Extracted(s)
        /\ raised[s] = Some("TranscriptsDisabled")
        /\ logged[s] = [info |-> 2, warning |-> 1, error |-> 0]

\* C23: every get_api_instance call selects its client from the values the
\* environment holds when it is called: credentials and locations set after
\* the module was loaded are the ones of the next client, and emptied
\* credentials make it a direct one.
C23_ReadsEnvironAtCall ==
    [][\A s \in Slots :
            ~Built(s) /\ Built(s)' => SelectedFrom(s, environ)']_vars

\* C24 as stated: an acquisition that ends on a rate-limit error has made
\* five attempts, each on a client of its own.
C24_FiveAttemptsOnRateLimit ==
    \A s \in Slots :
        Extracted(s) /\ raised[s] = Some(RateLimitError) =>
            calls[s].fetch = 5 /\ calls[s].get_api_instance = 5

\* C24, amended: a fetch that fails with a rate-limit error ends the
\* acquisition at once like any other error: extract_transcript returns
\* (False, None, None) after that one attempt, with one client built, one
\* fetch made, nothing converted and one warning logged; no attempt is
\* started once a fetch has been made.
C24_RateLimitEndsAcquisition ==
    \A s \in Slots :
        /\ pc[s] = "handler" => calls[s].fetch = 0
        /\ raised[s] = Some(RateLimitError) =>
            /\ pc[s] \in {"extracted", "done"}
            /\ result[s] = Failure
            /\ calls[s] = [get_api_instance |-> 1, fetch |-> 1, to_raw_data |-> 0]
            /\ logged[s].warning = 1
            /\ Answered(s) => response(s).status = 404

\* C24 witness: a request whose fetch was rate-limited was answered 404
\* after one fetch.
C24_Witness ==
    \E s \in Slots :
        /\ Answered(s)
        /\ raised[s] = Some(RateLimitError)
        /\ calls[s].fetch = 1
        /\ response(s).status = 404

\* C25: in all three operations a language the caller supplies is what
\* fetch receives, as the one-element list [language], unchanged.
C25_SuppliedLanguageReachesSource ==
    \A s \in Slots :
        fetchArgs[s] # None =>
            /\ "lang" \in DOMAIN req[s].args =>
                fetchArgs[s][1].languages = <<req[s].args.lang>>
            /\ "language" \in DOMAIN req[s].args /\ req[s].args.language # None =>
                fetchArgs[s][1].languages = req[s].args.language

\* C27: a timestamped request whose acquired segments have their keys and
\* a start before zero is answered 200 with start unchanged and
\* end = start + duration, or rejected with 400 or 422; never 500 or 404.
C27_NegativeStartPassesThrough ==
    \A s \in Slots :
        /\ Answered(s) /\ req[s].op = "timestamps" /\ result[s][1]
        /\ \A i \in 1..Len(result[s][3][1]) : HasAllKeys(result[s][3][1][i])
        /\ \E i \in 1..Len(result[s][3][1]) : result[s][3][1][i].start < 0
        =>  /\ response(s).status \in {200, 400, 422}
            /\ response(s).status = 200 =>
                \A i \in 1..Len(result[s][3][1]) :
                    /\ response(s).body.segments[1][i].start
                            = result[s][3][1][i].start
                    /\ response(s).body.segments[1][i].end
                            = result[s][3][1][i].start + result[s][3][1][i].duration

\* C27 witness: a segment that starts at -5 s and lasts 1.5 s came back with
\* start -5 s, end -3.5 s and the start rendered "-1:59:55.000".
C27_Witness ==
    \E s \in Slots :
        /\ Timestamped(s)
        /\ response(s).body.segments[1][1].start = 0 - Sec(5)
        /\ response(s).body.segments[1][1].end = 0 - Sec(7) \div 2
        /\ response(s).body.segments[1][1].startFormatted = "-1:59:55.000"

\* C28: for a non-negative time the minute field of the formatted string is
\* at most 59 and its seconds field is below 60.000.
C28_NormalisedClock ==
    \A s \in Slots :
        Timestamped(s) =>
            \A i \in 1..Len(response(s).body.segments[1]) :
                LET seg == response(s).body.segments[1][i]
                    Normal(str) ==
                        LET n == Len(str)
                        IN  /\ DigitsValue(MinuteField(str), 2) <= 59
                            /\ DigitsValue(SubSeq(str, n - 5, n - 4), 2) < 60
                IN  /\ seg.start >= 0 => Normal(seg.startFormatted)
                    /\ seg.end >= 0 => Normal(seg.endFormatted)

\* C29: the location filter of a proxied client, when there is one, is a
\* non-empty list of non-empty lower-case codes without whitespace around
\* them.
C29_NoEmptyFilterEntry ==
    \A s \in Slots :
        Proxied(s) /\ client(s).proxy_config[1].filter_ip_locations # None =>
            LET filter == client(s).proxy_config[1].filter_ip_locations[1]
            IN  /\ Len(filter) >= 1
                /\ \A i \in 1..Len(filter) :
                    /\ Len(filter[i]) >= 1
                    /\ filter[i][1] \notin Whitespace
                    /\ filter[i][Len(filter[i])] \notin Whitespace
                    /\ \A k \in 1..Len(filter[i]) : \A u \in DOMAIN UpperChars :
                            filter[i][k] # UpperChars[u]

\* C30: the steps of an acquisition come in a fixed order on a client of
\* its own: a request that holds a client has constructed it itself, an idle
\* slot holds none, fetch is called only by a request that holds its client,
\* to_raw_data only on what its fetch returned, and once construction or
\* fetch has failed the acquisition calls nothing more.
C30_StepsInOrderOnOwnClient ==
    /\ [](\A s \in Slots :
            /\ calls[s].get_api_instance <= 1
            /\ calls[s].to_raw_data <= calls[s].fetch
            /\ calls[s].fetch <= calls[s].get_api_instance
            /\ Built(s) => calls[s].get_api_instance = 1
            /\ Idle(s) => ~Built(s)
            /\ fetchArgs[s] # None => Built(s)
            /\ calls[s].to_raw_data = 1 => fetched[s] # NoFetched
            /\ raised[s] # None /\ fetched[s] = NoFetched =>
                calls[s].to_raw_data = 0
            /\ raised[s] # None /\ ~Built(s) => calls[s].fetch = 0)
    /\ [][\A s \in Slots :
            /\ calls[s].fetch < calls[s]'.fetch =>
                pc[s] = "built" /\ Built(s) /\ raised[s] = None
            /\ calls[s].to_raw_data < calls[s]'.to_raw_data =>
                pc[s] = "fetched" /\ fetched[s] # NoFetched /\ raised[s] = None
            /\ raised[s] # None /\ pc[s]' # "idle" => calls[s]' = calls[s]]_vars

\* C30 witness: two requests side by side hold a client each, one of them
\* after its fetch failed without a conversion, each having called
\* get_api_instance once.
C30_Witness ==
    \E s, t \in Slots :
        /\ s # t
        /\ Built(s) /\ calls[s] = [get_api_instance |-> 1, fetch |-> 1, to_raw_data |-> 0]
        /\ raised[s] = Some("VideoUnavailable")
        /\ Built(t) /\ calls[t] = [get_api_instance |-> 1, fetch |-> 1, to_raw_data |-> 1]
        /\ result[t][1]

=============================================================================
